---------------------------- MODULE Spec2Model ----------------------------
(***************************************************************************)
(* State-machine model of the two asset generators of EastVsWest:          *)
(*   scripts/generate_shadow.py       (the shadow sprite)                  *)
(*   scripts/generate_spritesheet.py  (the 8x6 walking sprite sheet)       *)
(*                                                                         *)
(* An image is its size plus the list of drawing calls made on it, with    *)
(* the arguments the script computed; the raster is a function of that     *)
(* list (PixelAlpha).  Float coordinates are fixed-point numbers with      *)
(* Scale units per pixel; the drawing library truncates them to whole      *)
(* pixels when it rasterises (ToPixel).                                    *)
(***************************************************************************)
EXTENDS Integers, Sequences, FiniteSets, TLC

VARIABLES
    script,      \* which script this process runs: "shadow" or "sheet"
    cwd,         \* directory the script is invoked from (absolute, as components)
    dirs,        \* directories that exist
    files,       \* file system: path -> content
    fontOutcome, \* what ImageFont.truetype does in this environment
    pc,          \* position of the script
    image,       \* the canvas: [size, mode, ops]
    row, col,    \* loop variables of create_sprite_sheet
    font,        \* the local variable font
    console,     \* lines printed so far by this run
    runs,        \* how many times the script was started
    probe,       \* a canvas pixel handed to the cell lookup
    owners       \* the cells found to contain the probe

vars == <<script, cwd, dirs, files, fontOutcome, pc, image, row, col, font,
          console, runs, probe, owners>>

---------------------------------------------------------------------------
(* Bounds of the model *)

\* the script is started at most this many times on the same file system
MaxRuns == 2

---------------------------------------------------------------------------
(* Constants of generate_spritesheet.py *)

FRAME_WIDTH == 96
FRAME_HEIGHT == 96
COLUMNS == 6
ROWS == 8
\* (variant: the width taken from the row count)
SheetWidthByRows == FRAME_WIDTH * ROWS
SPRITE_SHEET_WIDTH == FRAME_WIDTH * COLUMNS
SPRITE_SHEET_HEIGHT == FRAME_HEIGHT * ROWS

DIRECTIONS ==
    << "South", "South-East", "East", "North-East",
       "North", "North-West", "West", "South-West" >>

\* (variant: the angles counted counter-clockwise, y growing upward)
AngleMapYUp ==
    [r \in 0..7 |->
        CASE r = 0 -> 270
          [] r = 1 -> 315
          [] r = 2 -> 0
          [] r = 3 -> 45
          [] r = 4 -> 90
          [] r = 5 -> 135
          [] r = 6 -> 180
          [] r = 7 -> 225]

\* angle_map, keyed by row
angle_map ==
    [r \in 0..7 |->
        CASE r = 0 -> 90
          [] r = 1 -> 45
          [] r = 2 -> 0
          [] r = 3 -> 315
          [] r = 4 -> 270
          [] r = 5 -> 225
          [] r = 6 -> 180
          [] r = 7 -> 135]

arrow_length == 15
ArrowWidth == 3
TipRadius == 3
BodyBaseRadius == 25
AnimationAmplitude == 3
OutlineWidth == 2
LabelOffset == 5
FontSize == 10

body_color == <<100, 150, 200, 255>>
outline_color == <<50, 100, 150, 255>>
arrow_color == <<255, 200, 0, 255>>
label_color == <<255, 255, 255, 200>>
NoColor == <<>>

(* Constants of generate_shadow.py *)

ShadowSize == 96
\* (variant: an opaque shadow)
ShadowColorOpaque == <<0, 0, 0, 255>>
shadow_color == <<0, 0, 0, 100>>
ShadowLeft == 20
ShadowTop == 55
ShadowRight == 76
ShadowBottom == 85
Transparent == <<0, 0, 0, 0>>

---------------------------------------------------------------------------
(* Float arithmetic, in fixed point *)

\* units per pixel of a float coordinate
Scale == 1000

\* math.sin of a whole number of degrees, times Scale, rounded.  Where the
\* table has 0 and the float result is not exactly zero (sin pi = 1.2e-16,
\* cos pi/2 = 6.1e-17, cos 3pi/2 = -1.8e-16), the result times 3 or 15 is
\* below half an ulp of the number it is added to (25, or a coordinate of 48
\* or more), so the float sum is the exact value, as here.
SinDeg(d) ==
    LET a == d % 360 IN
    CASE a = 0   -> 0
      [] a = 45  -> 707
      [] a = 60  -> 866
      [] a = 90  -> 1000
      [] a = 120 -> 866
      [] a = 135 -> 707
      [] a = 180 -> 0
      [] a = 225 -> -707
      [] a = 240 -> -866
      [] a = 270 -> -1000
      [] a = 300 -> -866
      [] a = 315 -> -707

\* math.cos
CosDeg(d) == SinDeg(d + 90)

\* (int) of a non-negative float coordinate: truncation
ToPixel(v) == v \div Scale

---------------------------------------------------------------------------
(* Paths and the file system *)

Root == <<>>
RepoDir == <<"repo">>
ScriptsDir == <<"repo", "scripts">>

\* the directories every environment has
BaseDirs == {Root, RepoDir, ScriptsDir}

\* the directories an environment may or may not have
OptionalDirs ==
    { <<"public">>,
      <<"repo", "public">>,
      <<"repo", "public", "assets">>,
      <<"repo", "public", "assets", "player">> }

Parent(p) == IF p = <<>> THEN <<>> ELSE SubSeq(p, 1, Len(p) - 1)

PrefixClosed(ds) == \A d \in ds : Parent(d) \in ds

\* os.path resolution of a relative path against a directory
RECURSIVE Resolve(_, _)
Resolve(base, rel) ==
    IF rel = <<>> THEN base
    ELSE IF Head(rel) = ".." THEN Resolve(Parent(base), Tail(rel))
    ELSE Resolve(Append(base, Head(rel)), Tail(rel))

\* the path literals of the two scripts
ShadowSavePath == <<"..", "public", "shadow.png">>
ShadowReportedPath == <<"public", "shadow.png">>
output_path == <<"public", "assets", "player", "player-walk-spritesheet.png">>

SavePath == IF script = "shadow" THEN ShadowSavePath ELSE output_path

\* the file the running script writes
Target == Resolve(cwd, SavePath)

\* (variant: the directory of the file made first, as os.makedirs would)
RECURSIVE Ancestors(_)
Ancestors(p) == IF p = <<>> THEN {<<>>} ELSE {p} \cup Ancestors(Parent(p))
DirsAtSaveMakedirs(path) == dirs \cup Ancestors(Parent(path))

\* the directories that exist when save opens the file: the scripts create none
DirsAtSave(path) == dirs

\* (variant: a chunk that differs from run to run, as a timestamp would)
PngContentStamped(img) ==
    [format |-> "PNG", mode |-> img.mode, size |-> img.size, ops |-> img.ops,
     chunks |-> <<runs>>]

\* image.save: the file format and what is written
\* (no time or text chunk: none is asked for)
PngContent(img) ==
    [format |-> "PNG", mode |-> img.mode, size |-> img.size, ops |-> img.ops,
     chunks |-> <<>>]

\* a file left by something else
OldContent ==
    [format |-> "PNG", mode |-> "RGBA", size |-> <<1, 1>>, ops |-> <<>>, chunks |-> <<>>]

WriteFile(fs, path, content) ==
    [p \in (DOMAIN fs) \cup {path} |-> IF p = path THEN content ELSE fs[p]]

NoFiles == [p \in {} |-> OldContent]

---------------------------------------------------------------------------
(* Images and drawing calls *)

NewImage(w, h) == [size |-> <<w, h>>, mode |-> "RGBA", ops |-> <<>>]

NoImage == [size |-> <<0, 0>>, mode |-> "none", ops |-> <<>>]

Ellipse(x0, y0, x1, y1, fill, outline, width) ==
    [kind |-> "ellipse", x0 |-> x0, y0 |-> y0, x1 |-> x1, y1 |-> y1,
     fill |-> fill, outline |-> outline, width |-> width,
     text |-> "", font |-> "none"]

Line(x0, y0, x1, y1, fill, width) ==
    [kind |-> "line", x0 |-> x0, y0 |-> y0, x1 |-> x1, y1 |-> y1,
     fill |-> fill, outline |-> NoColor, width |-> width,
     text |-> "", font |-> "none"]

Text(x, y, label, fill, f) ==
    [kind |-> "text", x0 |-> x, y0 |-> y, x1 |-> x, y1 |-> y,
     fill |-> fill, outline |-> NoColor, width |-> 0,
     text |-> label, font |-> f]

Draw(img, op) == [img EXCEPT !.ops = Append(@, op)]

\* f"{col}" for a column index
Digits == <<"0", "1", "2", "3", "4", "5", "6", "7", "8", "9">>
FrameLabel(c) == Digits[c + 1]

---------------------------------------------------------------------------
(* The per-cell geometry of create_sprite_sheet *)

\* x = col * FRAME_WIDTH, y = row * FRAME_HEIGHT
CellX(c) == c * FRAME_WIDTH
CellY(r) == r * FRAME_HEIGHT

\* (variant: the half forgotten)
CenterXNoHalf(c) == CellX(c) + FRAME_WIDTH
center_x(c) == CellX(c) + FRAME_WIDTH \div 2
center_y(r) == CellY(r) + FRAME_HEIGHT \div 2

\* math.sin((col / COLUMNS) * math.pi * 2) * 3
animation_offset(c) == SinDeg((c * 360) \div COLUMNS) * AnimationAmplitude

\* (variant: the base radius forgotten)
BodyRadiusNoBase(c) == animation_offset(c)
body_radius(c) == BodyBaseRadius * Scale + animation_offset(c)

BodyOp(r, c) ==
    Ellipse(center_x(c) * Scale - body_radius(c), center_y(r) * Scale - body_radius(c),
            center_x(c) * Scale + body_radius(c), center_y(r) * Scale + body_radius(c),
            body_color, outline_color, OutlineWidth)

arrow_x(r, c) == center_x(c) * Scale + CosDeg(angle_map[r]) * arrow_length
arrow_y(r, c) == center_y(r) * Scale + SinDeg(angle_map[r]) * arrow_length

ArrowOp(r, c) ==
    Line(center_x(c) * Scale, center_y(r) * Scale, arrow_x(r, c), arrow_y(r, c),
         arrow_color, ArrowWidth)

TipOp(r, c) ==
    Ellipse(arrow_x(r, c) - TipRadius * Scale, arrow_y(r, c) - TipRadius * Scale,
            arrow_x(r, c) + TipRadius * Scale, arrow_y(r, c) + TipRadius * Scale,
            arrow_color, NoColor, 0)

LabelOp(r, c, f) ==
    Text((CellX(c) + LabelOffset) * Scale, (CellY(r) + LabelOffset) * Scale,
         FrameLabel(c), label_color, f)

\* the fonts
ArialFont == "Arial.ttf:10"
DefaultFont == "default"

\* (variant: except OSError:)
CaughtOSErrorOnly(exc) == exc = "OSError"

\* the bare except: of the font lookup catches whatever was raised
Caught(exc) == TRUE

---------------------------------------------------------------------------
(* The raster: which calls paint a pixel.  Coordinates are whole pixels,    *)
(* as the drawing library sees them after truncation.                       *)

Sq(n) == n * n

InBox(px, py, x0, y0, x1, y1) == x0 <= px /\ px <= x1 /\ y0 <= py /\ py <= y1

\* the filled ellipse inscribed in the box (x0,y0)-(x1,y1), both corners included
CoversEllipse(op, px, py) ==
    LET x0 == ToPixel(op.x0)  y0 == ToPixel(op.y0)
        x1 == ToPixel(op.x1)  y1 == ToPixel(op.y1)
    IN  /\ InBox(px, py, x0, y0, x1, y1)
        /\ Sq(2 * px - (x0 + x1)) * Sq(y1 - y0) + Sq(2 * py - (y0 + y1)) * Sq(x1 - x0)
              <= Sq(x1 - x0) * Sq(y1 - y0)

\* the segment (x0,y0)-(x1,y1) widened to op.width pixels, square ends
CoversLine(op, px, py) ==
    LET x0 == ToPixel(op.x0)  y0 == ToPixel(op.y0)
        x1 == ToPixel(op.x1)  y1 == ToPixel(op.y1)
        dx == x1 - x0         dy == y1 - y0
        len2 == Sq(dx) + Sq(dy)
        along == (px - x0) * dx + (py - y0) * dy
        across == (px - x0) * dy - (py - y0) * dx
        lox == IF x0 < x1 THEN x0 ELSE x1   hix == IF x0 < x1 THEN x1 ELSE x0
        loy == IF y0 < y1 THEN y0 ELSE y1   hiy == IF y0 < y1 THEN y1 ELSE y0
    IN  /\ InBox(px, py, lox - op.width, loy - op.width, hix + op.width, hiy + op.width)
        /\ IF len2 = 0
             THEN 4 * (Sq(px - x0) + Sq(py - y0)) <= Sq(op.width)
             ELSE 0 <= along /\ along <= len2 /\ 4 * Sq(across) <= Sq(op.width) * len2

\* a label's glyph, taken as the FontSize square at its anchor
CoversText(op, px, py) ==
    LET x0 == ToPixel(op.x0)  y0 == ToPixel(op.y0)
    IN  InBox(px, py, x0, y0, x0 + FontSize - 1, y0 + FontSize - 1)

Covers(op, px, py) ==
    CASE op.kind = "ellipse" -> CoversEllipse(op, px, py)
      [] op.kind = "line"    -> CoversLine(op, px, py)
      [] op.kind = "text"    -> CoversText(op, px, py)

\* the alpha of pixel (px, py): that of the last call that painted it, the
\* image starting fully transparent
PixelAlpha(img, px, py) ==
    LET hits == {i \in DOMAIN img.ops : Covers(img.ops[i], px, py)}
    IN  IF hits = {} THEN Transparent[4]
        ELSE img.ops[CHOOSE i \in hits : \A j \in hits : j <= i].fill[4]

\* the rectangle a call can reach, in fixed point: the box of its points,
\* widened by its stroke (a label: by its glyph square)
Extent(op) ==
    LET lox == IF op.x0 < op.x1 THEN op.x0 ELSE op.x1
        hix == IF op.x0 < op.x1 THEN op.x1 ELSE op.x0
        loy == IF op.y0 < op.y1 THEN op.y0 ELSE op.y1
        hiy == IF op.y0 < op.y1 THEN op.y1 ELSE op.y0
        w   == op.width * Scale
        g   == IF op.kind = "text" THEN FontSize * Scale ELSE 0
    IN  [x0 |-> lox - w, y0 |-> loy - w, x1 |-> hix + w + g, y1 |-> hiy + w + g]

\* the rectangle of cell (r, c), in fixed point
CellRect(r, c) ==
    [x0 |-> CellX(c) * Scale, y0 |-> CellY(r) * Scale,
     x1 |-> (CellX(c) + FRAME_WIDTH) * Scale, y1 |-> (CellY(r) + FRAME_HEIGHT) * Scale]

Within(a, b) == b.x0 <= a.x0 /\ a.x1 <= b.x1 /\ b.y0 <= a.y0 /\ a.y1 <= b.y1

\* pixel (px, py) belongs to cell (r, c)
CellContains(r, c, px, py) ==
    /\ CellX(c) <= px /\ px < CellX(c) + FRAME_WIDTH
    /\ CellY(r) <= py /\ py < CellY(r) + FRAME_HEIGHT

Cells == (0 .. Len(DIRECTIONS) - 1) \X (0 .. COLUMNS - 1)

---------------------------------------------------------------------------
(* Console lines *)

Msg(text, path, nums) == [text |-> text, path |-> path, nums |-> nums]

HeaderLines ==
    << Msg("Generating player walking sprite sheet...", <<>>, <<>>),
       Msg("  Dimensions: {}x{}px", <<>>, <<SPRITE_SHEET_WIDTH, SPRITE_SHEET_HEIGHT>>),
       Msg("  Frame size: {}x{}px", <<>>, <<FRAME_WIDTH, FRAME_HEIGHT>>),
       Msg("  Layout: {} frames x {} directions", <<>>, <<COLUMNS, ROWS>>) >>

SavedLine == Msg("Sprite sheet saved to: {}", output_path, <<>>)
SizeLine(img) == Msg("  File size: {}", <<>>, img.size)
VerifiedLine(content) == Msg("Verified: {}x{}px, mode=" \o content.mode, <<>>, content.size)
ShadowLine == Msg("Shadow sprite generated: {}", ShadowReportedPath, <<>>)

Range(s) == {s[i] : i \in DOMAIN s}

---------------------------------------------------------------------------
(* Initial states: the environment a script is started in *)

Init ==
    /\ script \in {"shadow", "sheet"}
    /\ cwd \in {RepoDir, ScriptsDir}
    /\ dirs \in {BaseDirs \cup ds : ds \in {x \in SUBSET OptionalDirs : PrefixClosed(BaseDirs \cup x)}}
    /\ files \in {NoFiles} \cup
                 {WriteFile(NoFiles, t, OldContent) :
                     t \in {x \in {Resolve(cwd, SavePath)} : Parent(x) \in dirs}}
    /\ fontOutcome \in {"ok", "OSError", "ImportError"}
    /\ pc = "start"
    /\ image = NoImage
    /\ row = 0
    /\ col = 0
    /\ font = "none"
    /\ console = <<>>
    /\ runs = 1
    /\ probe = <<0, 0>>
    /\ owners = {}

env == <<script, cwd, fontOutcome, runs, probe, owners>>

---------------------------------------------------------------------------
(* generate_spritesheet.py *)

\* main: the four header lines
PrintHeader ==
    /\ script = "sheet" /\ pc = "start"
    /\ console' = console \o HeaderLines
    /\ pc' = "create"
    /\ UNCHANGED <<env, dirs, files, image, row, col, font>>

\* create_sprite_sheet: the blank sheet, and the loops entered
NewSheet ==
    /\ script = "sheet" /\ pc = "create"
    /\ image' = NewImage(SPRITE_SHEET_WIDTH, SPRITE_SHEET_HEIGHT)
    /\ row' = 0 /\ col' = 0
    /\ pc' = IF Len(DIRECTIONS) > 0 /\ COLUMNS > 0 THEN "body" ELSE "drawn"
    /\ UNCHANGED <<env, dirs, files, font, console>>

\* the body circle of cell (row, col)
CellBody ==
    /\ script = "sheet" /\ pc = "body"
    /\ image' = Draw(image, BodyOp(row, col))
    /\ pc' = "arrow"
    /\ UNCHANGED <<env, dirs, files, row, col, font, console>>

\* the arrow line and the dot at its tip
CellArrow ==
    /\ script = "sheet" /\ pc = "arrow"
    /\ image' = Draw(Draw(image, ArrowOp(row, col)), TipOp(row, col))
    /\ pc' = "font_try"
    /\ UNCHANGED <<env, dirs, files, row, col, font, console>>

\* try: ImageFont.truetype(...)
FontTry ==
    /\ script = "sheet" /\ pc = "font_try"
    /\ IF fontOutcome = "ok"
         THEN font' = ArialFont /\ pc' = "label"
         ELSE /\ font' = font
              /\ pc' = IF Caught(fontOutcome) THEN "font_except" ELSE "crashed"
    /\ UNCHANGED <<env, dirs, files, image, row, col, console>>

\* except: ImageFont.load_default()
FontFallback ==
    /\ script = "sheet" /\ pc = "font_except"
    /\ font' = DefaultFont
    /\ pc' = "label"
    /\ UNCHANGED <<env, dirs, files, image, row, col, console>>

\* the last cell of the row-major order
LastCell(r, c) == r = Len(DIRECTIONS) - 1 /\ c = COLUMNS - 1

\* (variant: the two loops exchanged)
NextCellColumnMajor(r, c) == IF r + 1 < Len(DIRECTIONS) THEN <<r + 1, c>> ELSE <<0, c + 1>>

\* the loop variables after cell (r, c)
NextCell(r, c) == IF c + 1 < COLUMNS THEN <<r, c + 1>> ELSE <<r + 1, 0>>

\* draw.text, and the loops advanced (or left: return sprite_sheet)
CellLabel ==
    /\ script = "sheet" /\ pc = "label"
    /\ image' = Draw(image, LabelOp(row, col, font))
    /\ IF LastCell(row, col)
         THEN pc' = "drawn" /\ UNCHANGED <<row, col>>
         ELSE /\ pc' = "body"
              /\ row' = NextCell(row, col)[1]
              /\ col' = NextCell(row, col)[2]
    /\ UNCHANGED <<env, dirs, files, font, console>>

\* image.save(path): opens the file for writing, which needs its directory
Save ==
    /\ pc = "drawn"
    /\ dirs' = DirsAtSave(Target)
    /\ IF Parent(Target) \in dirs'
         THEN files' = WriteFile(files, Target, PngContent(image)) /\ pc' = "saved"
         ELSE files' = files /\ pc' = "crashed"
    /\ UNCHANGED <<env, image, row, col, font, console>>

\* main: the two lines after the save
ReportSaved ==
    /\ script = "sheet" /\ pc = "saved"
    /\ console' = console \o <<SavedLine, SizeLine(image)>>
    /\ pc' = "reported"
    /\ UNCHANGED <<env, dirs, files, image, row, col, font>>

\* main: Image.open(output_path) and the verification line
Verify ==
    /\ script = "sheet" /\ pc = "reported"
    /\ IF Resolve(cwd, output_path) \in DOMAIN files
         THEN /\ console' = Append(console, VerifiedLine(files[Resolve(cwd, output_path)]))
              /\ pc' = "done"
         ELSE console' = console /\ pc' = "crashed"
    /\ UNCHANGED <<env, dirs, files, image, row, col, font>>

---------------------------------------------------------------------------
(* generate_shadow.py *)

\* Image.new('RGBA', size, (0, 0, 0, 0))
NewShadow ==
    /\ script = "shadow" /\ pc = "start"
    /\ image' = NewImage(ShadowSize, ShadowSize)
    /\ pc' = "draw"
    /\ UNCHANGED <<env, dirs, files, row, col, font, console>>

ShadowOp ==
    Ellipse(ShadowLeft * Scale, ShadowTop * Scale, ShadowRight * Scale, ShadowBottom * Scale,
            shadow_color, NoColor, 0)

\* draw.ellipse(shadow_bbox, fill=shadow_color)
DrawShadow ==
    /\ script = "shadow" /\ pc = "draw"
    /\ image' = Draw(image, ShadowOp)
    /\ pc' = "drawn"
    /\ UNCHANGED <<env, dirs, files, row, col, font, console>>

\* print("Shadow sprite generated: public/shadow.png")
PrintShadow ==
    /\ script = "shadow" /\ pc = "saved"
    /\ console' = Append(console, ShadowLine)
    /\ pc' = "done"
    /\ UNCHANGED <<env, dirs, files, image, row, col, font>>

---------------------------------------------------------------------------
(* The script is started again, on the file system the last run left *)

Rerun ==
    /\ pc \in {"done", "crashed"}
    /\ runs < MaxRuns
    /\ runs' = runs + 1
    /\ pc' = "start"
    /\ image' = NoImage
    /\ row' = 0 /\ col' = 0
    /\ font' = "none"
    /\ console' = <<>>
    /\ UNCHANGED <<script, cwd, fontOutcome, probe, owners, dirs, files>>

Step ==
    \/ PrintHeader \/ NewSheet \/ CellBody \/ CellArrow \/ FontTry \/ FontFallback
    \/ CellLabel \/ Save \/ ReportSaved \/ Verify
    \/ NewShadow \/ DrawShadow \/ PrintShadow

Next == Step \/ Rerun

Spec == Init /\ [][Next]_vars

\* a started script runs on: it has one thread and waits for nothing
FairSpec == Spec /\ WF_vars(Step)

---------------------------------------------------------------------------
(* The grid on its own: a canvas pixel is handed to the cell lookup *)

TileInit ==
    /\ script = "sheet"
    /\ cwd = RepoDir
    /\ dirs = BaseDirs
    /\ files = NoFiles
    /\ fontOutcome = "ok"
    /\ pc = "probe"
    /\ image = NewImage(SPRITE_SHEET_WIDTH, SPRITE_SHEET_HEIGHT)
    /\ row = 0
    /\ col = 0
    /\ font = "none"
    /\ console = <<>>
    /\ runs = 1
    /\ probe \in (0 .. image.size[1] - 1) \X (0 .. image.size[2] - 1)
    /\ owners = {}

Locate ==
    /\ pc = "probe"
    /\ owners' = {rc \in Cells : CellContains(rc[1], rc[2], probe[1], probe[2])}
    /\ pc' = "located"
    /\ UNCHANGED <<script, cwd, dirs, files, fontOutcome, image, row, col, font,
                   console, runs, probe>>

TileNext == Locate

TileSpec == TileInit /\ [][TileNext]_vars

---------------------------------------------------------------------------
(* Claims *)

SheetDrawn == script = "sheet" /\ pc \in {"drawn", "saved", "reported", "done", "crashed"}
ShadowDrawn == script = "shadow" /\ pc \in {"drawn", "saved", "done", "crashed"}

\* no two distinct cells share a point, and every cell lies in the 576x768 canvas
CellsInsideCanvas ==
    \A rc \in (0 .. 7) \X (0 .. 5) :
        /\ CellX(rc[2]) = rc[2] * 96 /\ CellY(rc[1]) = rc[1] * 96
        /\ Within(CellRect(rc[1], rc[2]),
                  [x0 |-> 0, y0 |-> 0, x1 |-> 576 * Scale, y1 |-> 768 * Scale])

CellsDisjoint ==
    \A a \in Cells, b \in Cells :
        a # b =>
            LET ra == CellRect(a[1], a[2])  rb == CellRect(b[1], b[2])
            IN  ra.x1 <= rb.x0 \/ rb.x1 <= ra.x0 \/ ra.y1 <= rb.y0 \/ rb.y1 <= ra.y0

\* C1: the sheet canvas is exactly 576x768 and the 8x6 cells of 96x96 at
\* (col*96, row*96) tile it: each cell lies inside the canvas, distinct cells
\* are disjoint, and every canvas pixel belongs to exactly one cell.
C1_GridTilesCanvas ==
    /\ image.size = <<576, 768>>
    /\ Cells = (0 .. 7) \X (0 .. 5)
    /\ FRAME_WIDTH = 96 /\ FRAME_HEIGHT = 96
    /\ CellsInsideCanvas
    /\ CellsDisjoint
    /\ pc = "located" => Cardinality(owners) = 1

C1_Witness ==
    pc = "located" /\ probe = <<575, 767>> /\ owners = {<<7, 5>>}

\* C2 as stated: in the drawn shadow image the center pixel (48,48) has alpha
\* 100 and the four corner pixels have alpha 0.
C2_CenterInShadow ==
    ShadowDrawn =>
        /\ PixelAlpha(image, 48, 48) = 100
        /\ \A p \in {<<0, 0>>, <<95, 0>>, <<0, 95>>, <<95, 95>>} :
              PixelAlpha(image, p[1], p[2]) = 0

\* C2 amended: the shadow image is 96x96 RGBA; once the ellipse with box
\* (20,55)-(76,85) is drawn, the pixel at the center of that box, (48,70),
\* has alpha 100, while the image center (48,48) lies above the ellipse and
\* has alpha 0, as have the four corner pixels.
C2_ShadowBelowCenter ==
    ShadowDrawn =>
        /\ image.size = <<96, 96>> /\ image.mode = "RGBA"
        /\ image.ops = << Ellipse(20 * Scale, 55 * Scale, 76 * Scale, 85 * Scale,
                                  <<0, 0, 0, 100>>, NoColor, 0) >>
        /\ PixelAlpha(image, 48, 70) = 100
        /\ PixelAlpha(image, 48, 48) = 0
        /\ \A p \in {<<0, 0>>, <<95, 0>>, <<0, 95>>, <<95, 95>>} :
              PixelAlpha(image, p[1], p[2]) = 0

C2_Witness ==
    script = "shadow" /\ pc = "drawn" /\ PixelAlpha(image, 48, 70) = 100

\* the DirectionTable of the specification, by direction name
TableAngle(name) ==
    CASE name = "South"      -> 90
      [] name = "South-East" -> 45
      [] name = "East"       -> 0
      [] name = "North-East" -> 315
      [] name = "North"      -> 270
      [] name = "North-West" -> 225
      [] name = "West"       -> 180
      [] name = "South-West" -> 135

LineOps(img) == {i \in DOMAIN img.ops : img.ops[i].kind = "line"}

\* the row and column of the cell a fixed-point point lies in
RowOf(y) == ToPixel(y) \div FRAME_HEIGHT
ColOf(x) == ToPixel(x) \div FRAME_WIDTH

\* C3: every arrow starts at its cell's center and ends 15 away along the
\* angle the DirectionTable gives the row's direction name, y growing
\* downward: East gives (center_x+15, center_y), North (center_x,
\* center_y-15); the table has exactly 8 entries and angle_map agrees with
\* the names of DIRECTIONS index by index.
C3_ArrowEndpoints ==
    /\ Len(DIRECTIONS) = 8
    /\ DOMAIN angle_map = 0 .. 7
    /\ \A r \in 0 .. 7 : angle_map[r] = TableAngle(DIRECTIONS[r + 1])
    /\ script = "sheet" =>
        \A i \in LineOps(image) :
            LET op == image.ops[i]
                r  == RowOf(op.y0)
                c  == ColOf(op.x0)
                a  == TableAngle(DIRECTIONS[r + 1])
                dx == op.x1 - op.x0
                dy == op.y1 - op.y0
            IN  /\ op.x0 = (c * 96 + 48) * Scale /\ op.y0 = (r * 96 + 48) * Scale
                /\ dx = 15 * CosDeg(a) /\ dy = 15 * SinDeg(a)
                /\ r = 0 => dx = 0 /\ dy = 15 * Scale
                /\ r = 2 => dx = 15 * Scale /\ dy = 0
                /\ r = 4 => dx = 0 /\ dy = -15 * Scale
                /\ r = 6 => dx = -15 * Scale /\ dy = 0
                /\ r = 1 => dx > 0 /\ dy = dx
                /\ r = 3 => dx > 0 /\ dy = -dx
                /\ r = 5 => dx < 0 /\ dy = dx
                /\ r = 7 => dx < 0 /\ dy = -dx
    /\ SheetDrawn => Cardinality(LineOps(image)) = 48

C3_Witness ==
    /\ script = "sheet" /\ pc = "drawn"
    /\ \E i \in LineOps(image) :
          /\ RowOf(image.ops[i].y0) = 4 /\ ColOf(image.ops[i].x0) = 5
          /\ image.ops[i].y1 = image.ops[i].y0 - 15 * Scale

\* the line a finished shadow run printed last
LastLine == console[Len(console)]

\* C4 as stated: the shadow script saves to public/shadow.png, the path it
\* reports, and the sheet script to
\* public/assets/player/player-walk-spritesheet.png, both resolved against the
\* directory the script is started from; a run that saves overwrites the file.
C4_SavesToReportedPath ==
    /\ (script = "shadow" /\ pc \in {"saved", "done"}) =>
          /\ Resolve(cwd, <<"public", "shadow.png">>) \in DOMAIN files
          /\ files[Resolve(cwd, <<"public", "shadow.png">>)] = PngContent(image)
    /\ (script = "shadow" /\ pc = "done") =>
          Target = Resolve(cwd, LastLine.path)
    /\ (script = "sheet" /\ pc \in {"saved", "reported", "done"}) =>
          /\ Resolve(cwd, <<"public", "assets", "player", "player-walk-spritesheet.png">>)
                \in DOMAIN files
          /\ files[Resolve(cwd, <<"public", "assets", "player",
                                  "player-walk-spritesheet.png">>)] = PngContent(image)


SheetDir == Resolve(cwd, Parent(output_path))
SheetFile == Resolve(cwd, output_path)

\* the verification lines among the printed lines
VerifiedLines(lines) ==
    {i \in DOMAIN lines : lines[i].text = "Verified: {}x{}px, mode=RGBA"}

\* C5: started without the directory public/assets/player, the sheet script
\* fails at the save: the run ends there, no directory is created, no file is
\* written, and neither the 'saved' line nor the verification is reached;
\* and the verification runs only after a save that wrote the file.
C5_MissingDirFails ==
    [][ /\ (script = "sheet" /\ SheetDir \notin dirs) =>
              /\ SheetDir \notin dirs'
              /\ dirs' = dirs
              /\ SheetFile \notin DOMAIN files'
              /\ pc' \notin {"saved", "reported", "done"}
              /\ SavedLine \notin Range(console')
              /\ VerifiedLines(console') = {}
              /\ pc = "drawn" => pc' = "crashed"
        /\ (script = "sheet" /\ pc' = "done") =>
              /\ pc = "reported"
              /\ SheetDir \in dirs
              /\ SheetFile \in DOMAIN files
              /\ files[SheetFile] = PngContent(image)
              /\ SavedLine \in Range(console)
      ]_vars

C5_Witness ==
    /\ script = "sheet" /\ SheetDir \notin dirs /\ Parent(SheetDir) \in dirs
    /\ pc = "crashed" /\ Len(image.ops) = 192 /\ runs = 1

\* C6: once create_sprite_sheet has returned, every cell of the 8x6 grid
\* holds a non-transparent pixel: its center pixel, which the body circle
\* (of positive radius for every column) covers.
C6_EveryCellPainted ==
    SheetDrawn =>
        \A rc \in (0 .. 7) \X (0 .. 5) :
            LET px == rc[2] * 96 + 48
                py == rc[1] * 96 + 48
            IN  /\ body_radius(rc[2]) > 0
                /\ CellContains(rc[1], rc[2], px, py)
                /\ \E i \in DOMAIN image.ops :
                      /\ image.ops[i].fill = body_color
                      /\ CoversEllipse(image.ops[i], px, py)
                /\ PixelAlpha(image, px, py) > 0

C6_Witness ==
    /\ script = "sheet" /\ pc = "drawn"
    /\ PixelAlpha(image, 5 * 96 + 48, 7 * 96 + 48) > 0
    /\ body_radius(4) < BodyBaseRadius * Scale

OpsOfKind(img, k) == SelectSeq(img.ops, LAMBDA o : o.kind = k)
BodyOps(img) == SelectSeq(img.ops, LAMBDA o : o.kind = "ellipse" /\ o.outline # NoColor)
TipOps(img) == SelectSeq(img.ops, LAMBDA o : o.kind = "ellipse" /\ o.outline = NoColor)

\* the k-th cell (from 0) of the row-major order, direction outer, frame inner
RowMajor(k) == <<k \div 6, k % 6>>

\* the cell whose center a body circle or an arrow is drawn at
CellOfBody(op) == <<RowOf((op.y0 + op.y1) \div 2), ColOf((op.x0 + op.x1) \div 2)>>
CellOfStart(op) == <<RowOf(op.y0), ColOf(op.x0)>>

InRowMajorOrder(img) ==
    LET bodies == BodyOps(img)
        arrows == OpsOfKind(img, "line")
        tips   == TipOps(img)
        labels == OpsOfKind(img, "text")
    IN  /\ Len(bodies) <= 48
        /\ \A i \in DOMAIN bodies : CellOfBody(bodies[i]) = RowMajor(i - 1)
        /\ \A i \in DOMAIN arrows : CellOfStart(arrows[i]) = RowMajor(i - 1)
        /\ \A i \in DOMAIN labels : CellOfStart(labels[i]) = RowMajor(i - 1)
        /\ Len(arrows) = Len(tips)
        /\ Len(labels) <= Len(arrows) /\ Len(arrows) <= Len(bodies)
        /\ Len(bodies) <= Len(labels) + 1

AllCellsDrawn(ops) ==
    /\ Len(ops) = 4 * 48
    /\ Len(SelectSeq(ops, LAMBDA o : o.kind = "text")) = 48

\* C8: create_sprite_sheet draws the 48 cells once each in row-major order
\* (direction outer, frame inner), it always returns, and the sheet is saved
\* only when all 48 cells are drawn.
C8_RowMajorOnce ==
    /\ [](script = "sheet" =>
            /\ InRowMajorOrder(image)
            /\ SheetDrawn => AllCellsDrawn(image.ops)
            /\ pc \in {"saved", "reported", "done"} =>
                  /\ SheetFile \in DOMAIN files
                  /\ AllCellsDrawn(files[SheetFile].ops))
    /\ [][(script = "sheet" /\ SheetFile \in DOMAIN files' /\ files' # files) =>
              AllCellsDrawn(image.ops) /\ files'[SheetFile].ops = image.ops]_vars
    /\ ((script = "sheet" /\ pc = "create") ~> (pc = "drawn"))

C8_Witness ==
    /\ script = "sheet" /\ pc = "saved" /\ AllCellsDrawn(files[SheetFile].ops)
    /\ CellOfBody(BodyOps(image)[48]) = <<7, 5>>
    /\ CellOfBody(BodyOps(image)[7]) = <<1, 0>>

\* C9: in every cell a failure of any kind to load the system font is caught
\* and the default font takes its place: the cell's label is still drawn, at
\* the same place with the same text, nothing else of the drawing changes,
\* the remaining cells are processed and the run does not end there.
C9_FontFallback ==
    /\ [][ script = "sheet" =>
            /\ (pc = "font_try" /\ fontOutcome # "ok") =>
                  pc' = "font_except" /\ image' = image /\ row' = row /\ col' = col
            /\ pc = "font_except" =>
                  /\ font' = DefaultFont /\ pc' = "label"
                  /\ image' = image /\ row' = row /\ col' = col
            /\ pc = "label" =>
                  /\ font = (IF fontOutcome = "ok" THEN ArialFont ELSE DefaultFont)
                  /\ image'.ops = Append(image.ops,
                        Text((col * 96 + 5) * Scale, (row * 96 + 5) * Scale,
                             Digits[col + 1], label_color, font))
                  /\ pc' \in {"body", "drawn"}
         ]_vars
    /\ [](script = "sheet" =>
            /\ \A i \in DOMAIN image.ops :
                  image.ops[i].kind # "text" => image.ops[i].font = "none"
            /\ pc = "crashed" => AllCellsDrawn(image.ops))
    /\ ((script = "sheet" /\ pc = "font_try" /\ fontOutcome # "ok") ~> (pc = "drawn"))

C9_Witness ==
    /\ script = "sheet" /\ fontOutcome = "ImportError" /\ pc = "drawn"
    /\ AllCellsDrawn(image.ops)
    /\ image.ops[Len(image.ops)].font = DefaultFont

CornerPixels ==
    UNION { { <<rc[2] * 96, rc[1] * 96>>, <<rc[2] * 96 + 95, rc[1] * 96>>,
              <<rc[2] * 96, rc[1] * 96 + 95>>, <<rc[2] * 96 + 95, rc[1] * 96 + 95>> }
            : rc \in (0 .. 7) \X (0 .. 5) }

\* C10: whatever is drawn for cell (row, col) -- the body circle with its
\* outline, the arrow with its tip dot, the label at offset (5,5) -- lies
\* inside that cell's 96x96 rectangle and leaves the earlier calls as they
\* were; the pixels no shape reaches, such as every cell's corners, stay
\* fully transparent.
C10_CellIsolation ==
    /\ [][ (script = "sheet" /\ pc \in {"body", "arrow", "label"}) =>
            /\ Len(image'.ops) > Len(image.ops)
            /\ SubSeq(image'.ops, 1, Len(image.ops)) = image.ops
            /\ \A i \in (Len(image.ops) + 1) .. Len(image'.ops) :
                  /\ Within(Extent(image'.ops[i]),
                            [x0 |-> col * 96 * Scale, y0 |-> row * 96 * Scale,
                             x1 |-> (col + 1) * 96 * Scale, y1 |-> (row + 1) * 96 * Scale])
                  /\ \A rc \in Cells \ {<<row, col>>} :
                        ~ Covers(image'.ops[i], center_x(rc[2]), center_y(rc[1]))
         ]_vars
    /\ []((script = "sheet" /\ pc = "drawn") =>
            \A p \in CornerPixels : PixelAlpha(image, p[1], p[2]) = 0)

C10_Witness ==
    /\ script = "sheet" /\ pc = "drawn" /\ AllCellsDrawn(image.ops)
    /\ PixelAlpha(image, 0, 0) = 0
    /\ PixelAlpha(image, 5, 5) = label_color[4]
    /\ PixelAlpha(image, 48, 48) = arrow_color[4]

=============================================================================
